---------------------------- MODULE Spec2Model ----------------------------
(***************************************************************************)
(* pyQParamWidget: the parameter items (param_item.py, and the older       *)
(* ParameterItem of param_editor.py), the editor widgets (qpw_widgets.py)  *)
(* and the ParameterEditor form with its dirty flag (param_editor.py of    *)
(* the pyQParamWidget package).                                            *)
(*                                                                         *)
(* Python values are records [t |-> type name, v |-> payload]; a Python    *)
(* str is the sequence of its characters, so that str() and int() are      *)
(* computed character by character.  An expression that raises evaluates   *)
(* to a record of type "raise" carrying the exception's name.              *)
(***************************************************************************)
EXTENDS Integers, Sequences, FiniteSets

\* ------------------------------------------------------------------------
\* Bounds of the model
\* ------------------------------------------------------------------------

\* Largest hi of the index parameter given to the editor (its lo is 0).
MaxIndex == 1

\* Largest integer handed to the parameter item constructors as value, hi, lo.
MaxArg == 2

\* Most calls of qpw_set on one widget.
MaxSets == 3

\* ------------------------------------------------------------------------
\* Python values
\* ------------------------------------------------------------------------

PyStr(s) == [t |-> "str", v |-> s]

PyInt(i) == [t |-> "int", v |-> i]

PyBool(b) == [t |-> "bool", v |-> b]

PyList(l) == [t |-> "list", v |-> l]

Raise(exc, msg) == [t |-> "raise", v |-> exc, msg |-> msg]

IsRaise(x) == x.t = "raise"

\* bool and int compare as numbers (True == 1), everything else by type
\* and payload.
PyNum(x) == IF x.t = "bool" THEN (IF x.v THEN 1 ELSE 0) ELSE x.v

PyEq(a, b) ==
    IF a.t \in {"bool", "int"} /\ b.t \in {"bool", "int"}
    THEN PyNum(a) = PyNum(b)
    ELSE a.t = b.t /\ a.v = b.v

\* Truth value of a Python value, as "2 if value else 0" tests it.
PyTruth(x) ==
    CASE x.t = "bool" -> x.v
      [] x.t = "int"  -> x.v # 0
      [] x.t = "str"  -> x.v # <<>>
      [] x.t = "list" -> x.v # <<>>
      [] OTHER        -> TRUE

Digits == <<"0", "1", "2", "3", "4", "5", "6", "7", "8", "9">>

DigitChars == {Digits[i] : i \in 1..10}

DigitVal(c) == (CHOOSE i \in 1..10 : Digits[i] = c) - 1

\* str(n) of a natural number: its decimal digits.
RECURSIVE NatStr(_)
NatStr(n) ==
    IF n < 10 THEN <<Digits[n + 1]>>
    ELSE Append(NatStr(n \div 10), Digits[(n % 10) + 1])

IntStr(n) == IF n < 0 THEN <<"-">> \o NatStr(0 - n) ELSE NatStr(n)

\* str(value)
str(x) ==
    CASE x.t = "str"  -> x.v
      [] x.t = "int"  -> IntStr(x.v)
      [] x.t = "bool" -> IF x.v THEN <<"T", "r", "u", "e">>
                                ELSE <<"F", "a", "l", "s", "e">>

RECURSIVE DigitsVal(_, _)
DigitsVal(s, acc) ==
    IF s = <<>> THEN acc
    ELSE DigitsVal(Tail(s), (10 * acc) + DigitVal(Head(s)))

AllDigits(s) == s # <<>> /\ \A i \in 1..Len(s) : s[i] \in DigitChars

\* int(text): an optional sign and at least one digit, ValueError otherwise.
IntParse(s) ==
    IF s # <<>> /\ Head(s) \in {"-", "+"}
    THEN IF AllDigits(Tail(s))
         THEN PyInt((IF Head(s) = "-" THEN -1 ELSE 1) * DigitsVal(Tail(s), 0))
         ELSE Raise("ValueError", "invalid literal for int()")
    ELSE IF AllDigits(s) THEN PyInt(DigitsVal(s, 0))
         ELSE Raise("ValueError", "invalid literal for int()")

\* original_type(x): the call of the latched type on a widget's native
\* value (a str or an int).  Calling None raises TypeError.
PyCall(type, x) ==
    CASE type = "str"  -> PyStr(str(x))
      [] type = "bool" -> PyBool(PyTruth(x))
      [] type = "int"  -> IF x.t = "str" THEN IntParse(x.v) ELSE PyInt(PyNum(x))
      [] OTHER         -> Raise("TypeError", "'NoneType' object is not callable")

\* ------------------------------------------------------------------------
\* qpw_widgets.py: names and widget classes
\* ------------------------------------------------------------------------

PARM_TYPE_CHECKBOX == "QPW_checkbox"

PARM_TYPE_CHOICE == "QPW_choice"

PARM_TYPE_INDEX == "QPW_index"

PARM_TYPE_DEFAULT == "QPW_default"

_PARM_WIDGETS ==
    [w \in {PARM_TYPE_CHECKBOX, PARM_TYPE_CHOICE, PARM_TYPE_DEFAULT, PARM_TYPE_INDEX} |->
        CASE w = PARM_TYPE_CHECKBOX -> "QPW_CheckBox"
          [] w = PARM_TYPE_CHOICE   -> "QPW_Choice"
          [] w = PARM_TYPE_DEFAULT  -> "QPW_Text"
          [] w = PARM_TYPE_INDEX    -> "QPW_Index"]

_PARM_WIDGET_KEYS == DOMAIN _PARM_WIDGETS

\* UNDEFINED_VALUE = object: the class object, equal to nothing but itself.
UNDEFINED_VALUE == [t |-> "type", v |-> "object"]


\* An argument the caller leaves out; the signature's default takes its place.
Absent == [t |-> "absent", v |-> "absent"]

\* A widget name handed over as an argument.
Name(n) == [t |-> "name", v |-> n]

Arg(given, default) == IF given.t = "absent" THEN default ELSE given

\* ------------------------------------------------------------------------
\* param_item.py: the parameter items
\* ------------------------------------------------------------------------

\* The dataclass fields the editor and the validation read (label and
\* tooltip are display text only).
Item(cls, value, widget, choices, hi, lo) ==
    [t |-> "item", cls |-> cls, value |-> value, widget |-> widget,
     choices |-> choices, hi |-> hi, lo |-> lo]

NoError == [t |-> "None", v |-> "None"]

\* ParameterItemBase.validate
validate_Base(self) == Raise("NotImplementedError", "Implement in the subclass.")

\* ParameterItemCheckbox.validate, ParameterItemText.validate
validate_pass(self) == NoError

\* ParameterItemChoice.validate
validate_Choice(self) ==
    IF PyEq(self.choices, UNDEFINED_VALUE)
    THEN Raise("ValueError", "Must be list of choices")
    ELSE NoError

\* A validate that compares the value with hi only.
validate_Index_noLo(self) ==
    IF PyEq(self.hi, UNDEFINED_VALUE) THEN Raise("ValueError", "Must provide hi")
    ELSE IF PyEq(self.lo, UNDEFINED_VALUE) THEN Raise("ValueError", "Must provide lo")
    ELSE IF self.lo.v > self.hi.v THEN Raise("ValueError", "lo greater than hi")
    ELSE LET n == PyCall("int", self.value) IN
         IF IsRaise(n) THEN n
         ELSE IF n.v > self.hi.v THEN Raise("ValueError", "value greater than hi")
         ELSE NoError

\* ParameterItemIndex.validate: the checks in the order of the code;
\* int(value) may itself raise.
validate_Index(self) ==
    IF PyEq(self.hi, UNDEFINED_VALUE) THEN Raise("ValueError", "Must provide hi")
    ELSE IF PyEq(self.lo, UNDEFINED_VALUE) THEN Raise("ValueError", "Must provide lo")
    ELSE IF self.lo.v > self.hi.v THEN Raise("ValueError", "lo greater than hi")
    ELSE LET n == PyCall("int", self.value) IN
         IF IsRaise(n) THEN n
         ELSE IF n.v > self.hi.v THEN Raise("ValueError", "value greater than hi")
         ELSE IF n.v < self.lo.v THEN Raise("ValueError", "value less than lo")
         ELSE NoError

validate(self) ==
    CASE self.cls = "ParameterItemBase"     -> validate_Base(self)
      [] self.cls = "ParameterItemCheckbox" -> validate_pass(self)
      [] self.cls = "ParameterItemChoice"   -> validate_Choice(self)
      [] self.cls = "ParameterItemIndex"    -> validate_Index(self)
      [] self.cls = "ParameterItemText"     -> validate_pass(self)

\* ParameterItemBase.__post_init__: the new item, or the exception raised.
post_init(self) ==
    IF self.widget \in _PARM_WIDGET_KEYS
    THEN LET e == validate(self) IN IF IsRaise(e) THEN e ELSE self
    ELSE Raise("ValueError", "Received widget. Must be one of")

\* ParameterItemBase(label, value, *, widget, tooltip, choices, hi, lo)
ParameterItemBase(value, widget, choices, hi, lo) ==
    post_init(Item("ParameterItemBase", value, Arg(widget, Name(PARM_TYPE_DEFAULT)).v,
                   Arg(choices, UNDEFINED_VALUE), Arg(hi, UNDEFINED_VALUE),
                   Arg(lo, UNDEFINED_VALUE)))

\* ParameterItemCheckbox(label, value, tooltip)
ParameterItemCheckbox(value) ==
    post_init(Item("ParameterItemCheckbox", value, PARM_TYPE_CHECKBOX,
                   UNDEFINED_VALUE, UNDEFINED_VALUE, UNDEFINED_VALUE))

\* ParameterItemChoice(label, value, choices=[], tooltip)
ParameterItemChoice(value, choices) ==
    post_init(Item("ParameterItemChoice", value, PARM_TYPE_CHOICE,
                   Arg(choices, PyList(<<>>)), UNDEFINED_VALUE, UNDEFINED_VALUE))

\* ParameterItemIndex(label, value, hi=UNDEFINED_VALUE, lo=UNDEFINED_VALUE, tooltip)
ParameterItemIndex(value, hi, lo) ==
    post_init(Item("ParameterItemIndex", value, PARM_TYPE_INDEX, UNDEFINED_VALUE,
                   Arg(hi, UNDEFINED_VALUE), Arg(lo, UNDEFINED_VALUE)))

\* ParameterItemText(label, value, tooltip)
ParameterItemText(value) ==
    post_init(Item("ParameterItemText", value, PARM_TYPE_DEFAULT,
                   UNDEFINED_VALUE, UNDEFINED_VALUE, UNDEFINED_VALUE))

\* The older frozen dataclass of pyqparamwidget/param_editor.py:
\* ParameterItem(label, original_value, *, widget, tooltip, choices, hi, lo)
ParameterItem(original_value, widget, choices, hi, lo) ==
    LET self == Item("ParameterItem", original_value, Arg(widget, Name(PARM_TYPE_DEFAULT)).v,
                     Arg(choices, UNDEFINED_VALUE), Arg(hi, UNDEFINED_VALUE),
                     Arg(lo, UNDEFINED_VALUE))
    IN  IF self.widget = PARM_TYPE_CHOICE
        THEN IF PyEq(self.choices, UNDEFINED_VALUE)
             THEN Raise("ValueError", "Must list of choices")
             ELSE self
        ELSE IF self.widget = PARM_TYPE_INDEX
        THEN IF PyEq(self.hi, UNDEFINED_VALUE) THEN Raise("ValueError", "Must provide hi")
             ELSE IF PyEq(self.lo, UNDEFINED_VALUE) THEN Raise("ValueError", "Must provide lo")
             ELSE IF self.lo.v > self.hi.v THEN Raise("ValueError", "lo greater than hi")
             ELSE LET n == PyCall("int", self.value) IN
                  IF IsRaise(n) THEN n
                  ELSE IF n.v > self.hi.v THEN Raise("ValueError", "value greater than hi")
                  ELSE IF n.v < self.lo.v THEN Raise("ValueError", "value less than lo")
                  ELSE self
        ELSE IF self.widget \notin _PARM_WIDGET_KEYS
        THEN Raise("ValueError", "Received widget. Must be one of")
        ELSE self


\* ------------------------------------------------------------------------
\* qpw_widgets.py: the editor widgets
\* ------------------------------------------------------------------------

\* A widget as Qt constructs it: an unchecked QCheckBox, an empty QComboBox,
\* a QSpinBox at 0 in 0..99, an empty QLineEdit.  original_type is the class
\* attribute: bool for the checkbox, None for the others.
NewWidget(cls) ==
    [cls |-> cls,
     original_type |-> IF cls = "QPW_CheckBox" THEN "bool" ELSE "None",
     checkState |-> 0, items |-> <<>>, currentIndex |-> -1,
     value |-> 0, minimum |-> 0, maximum |-> 99, text |-> <<>>]

\* QComboBox.currentText(): the empty string when nothing is current.
currentText(w) == IF w.currentIndex = -1 THEN <<>> ELSE w.items[w.currentIndex + 1]

\* The widget's native value, whose change fires its change signal.
Native(w) ==
    CASE w.cls = "QPW_CheckBox" -> PyInt(w.checkState)
      [] w.cls = "QPW_Choice"   -> PyStr(currentText(w))
      [] w.cls = "QPW_Index"    -> PyInt(w.value)
      [] w.cls = "QPW_Text"     -> PyStr(w.text)

\* qpw_get of the four classes: original_type(native value).
qpw_get(w) == PyCall(w.original_type, Native(w))

\* QComboBox.setCurrentText on a combo box that is not editable: the first
\* item with that text becomes current; without one nothing changes.
setCurrentText(w, text) ==
    LET found == {i \in 1..Len(w.items) : w.items[i] = text}
    IN  IF found = {} THEN w
        ELSE [w EXCEPT !.currentIndex = (CHOOSE i \in found : \A j \in found : i <= j) - 1]

\* QSpinBox.setValue: the value is forced into minimum..maximum.
setValue(w, n) ==
    [w EXCEPT !.value = IF n < w.minimum THEN w.minimum
                        ELSE IF n > w.maximum THEN w.maximum ELSE n]

\* The type a widget latches on its first qpw_set.
Latch(w, value) ==
    IF w.original_type = "None" THEN [w EXCEPT !.original_type = value.t] ELSE w

\* qpw_set of the four classes.
qpw_set(w, value) ==
    CASE w.cls = "QPW_CheckBox" ->
            [w EXCEPT !.checkState = IF PyTruth(value) THEN 2 ELSE 0]
      [] w.cls = "QPW_Choice" -> setCurrentText(Latch(w, value), str(value))
      [] w.cls = "QPW_Index"  -> setValue(Latch(w, value), PyNum(value))
      [] w.cls = "QPW_Text"   -> [Latch(w, value) EXCEPT !.text = str(value)]

\* The widget class of a parameter item.
widget_class(pitem) == _PARM_WIDGETS[pitem.widget]

\* qpw_setup(pitem, slot): the widget takes the item's choices (the first
\* becomes current) or its range, then the item's value, as the older
\* editor's setup() builds its widgets; the change signal is connected to
\* the slot last, so that no callback runs before every editor exists.
qpw_setup(w, pitem) ==
    CASE w.cls = "QPW_Choice" ->
            qpw_set([w EXCEPT !.items = pitem.choices.v,
                              !.currentIndex = IF pitem.choices.v = <<>> THEN -1 ELSE 0],
                    pitem.value)
      [] w.cls = "QPW_Index" ->
            qpw_set(setValue([w EXCEPT !.minimum = pitem.lo.v, !.maximum = pitem.hi.v],
                             w.value),
                    pitem.value)
      [] OTHER -> qpw_set(w, pitem.value)

\* qpw_isChanged(): the widget's value differs from its parameter's value.
qpw_isChanged(w, pitem) ==
    LET g == qpw_get(w) IN IF IsRaise(g) THEN g ELSE PyBool(~PyEq(g, pitem.value))


\* ------------------------------------------------------------------------
\* pyQParamWidget/param_editor.py: ParameterEditor
\* ------------------------------------------------------------------------

VARIABLES
    parameters,   \* self.parameters: key -> parameter item
    editors,      \* self.editors: key -> editor widget
    _dirty,       \* self._dirty
    btn_accept,   \* the Accept button is enabled
    btn_reset,    \* the Reset button is enabled
    event,        \* what the last handler did with its close event
    alert,        \* the last handler showed the unsaved-changes alert
    last,         \* the last handler: its name, whether it raised, whether a
                  \* change callback inside it set the flag, the keys it updated
    call,         \* a parameter item constructor call
    result,       \* what the call returned or raised
    self_dirty,   \* ParameterEditorWidget's self.dirty
    results,      \* what the last handler of ParameterEditorWidget returned
    qpw_widget,   \* an editor widget on its own
    given         \* the values handed to its qpw_set, in order

vars == <<parameters, editors, _dirty, btn_accept, btn_reset, event, alert,
          last, call, result, self_dirty, results, qpw_widget, given>>

editorVars == <<parameters, editors, _dirty, btn_accept, btn_reset, event, alert, last>>

itemVars == <<call, result>>

formVars == <<self_dirty, results>>

widgetVars == <<qpw_widget, given>>

\* The keys of the parameters dictionary, in its (insertion) order.
KeyOrder == <<"autoscale", "color", "count", "title">>

Keys == {KeyOrder[i] : i \in 1..Len(KeyOrder)}

\* The editor's own state, as the handlers read and write it.
Self ==
    [editors |-> editors, dirty |-> _dirty, btn_accept |-> btn_accept,
     btn_reset |-> btn_reset, raised |-> FALSE, midDirty |-> FALSE]

\* changedValues(): the dictionary key -> qpw_get() over the editors whose
\* qpw_isChanged() is true; the first conversion that raises ends the call.
changedValues(eds, parms) ==
    LET chg(k) == qpw_isChanged(eds[k], parms[k])
        bad == {i \in 1..Len(KeyOrder) : IsRaise(chg(KeyOrder[i]))}
    IN  IF bad # {}
        THEN chg(KeyOrder[CHOOSE i \in bad : \A j \in bad : i <= j])
        ELSE [t |-> "dict",
              v |-> [k \in {k \in Keys : chg(k).v} |-> qpw_get(eds[k])]]

\* values()
values(eds) == [k \in Keys |-> qpw_get(eds[k])]

\* A setDirty that leaves the Reset button as it was.
setDirty_skipsReset(self, dirty) ==
    [self EXCEPT !.dirty = dirty, !.btn_accept = dirty]

\* setDirty(dirty): the flag and the two buttons.
setDirty(self, dirty) ==
    [self EXCEPT !.dirty = dirty, !.btn_accept = dirty, !.btn_reset = dirty]

\* A slot that tests len(changedValues()) >= 0: the flag, once an editor
\* has changed, stays.
checkIfDirty_sticky(self, parms) ==
    LET cv == changedValues(self.editors, parms)
    IN  IF IsRaise(cv) THEN [self EXCEPT !.raised = TRUE]
        ELSE LET dirty == Cardinality(DOMAIN cv.v) >= 0
             IN  [setDirty(self, dirty) EXCEPT !.midDirty = @ \/ dirty]

\* checkIfDirty(_v), the slot of every editor's change signal.  An
\* exception leaves the slot before setDirty; Qt reports it and either ends
\* the process, with no further state, or returns to the caller: the model
\* follows the run that goes on.
checkIfDirty(self, parms) ==
    LET cv == changedValues(self.editors, parms)
    IN  IF IsRaise(cv) THEN [self EXCEPT !.raised = TRUE]
        ELSE LET dirty == Cardinality(DOMAIN cv.v) > 0
             IN  [setDirty(self, dirty) EXCEPT !.midDirty = @ \/ dirty]

\* A widget whose native value has changed emits its signal.
Emit(self, parms, before, k) ==
    IF Native(self.editors[k]) # Native(before) THEN checkIfDirty(self, parms) ELSE self

\* The loop of do_reset from the i-th key on: qpw_set, which calls the slot
\* when the widget's value changes.
RECURSIVE resetLoop(_, _, _)
resetLoop(self, parms, i) ==
    IF i > Len(KeyOrder) THEN self
    ELSE LET k == KeyOrder[i]
             w == qpw_set(self.editors[k], parms[k].value)
         IN  resetLoop(Emit([self EXCEPT !.editors[k] = w], parms, self.editors[k], k),
                       parms, i + 1)

\* do_reset()
do_reset(self, parms) == setDirty(resetLoop(self, parms, 1), FALSE)

\* do_accept(): the state and the parameters after it.
do_accept(self, parms) ==
    LET cv == changedValues(self.editors, parms)
    IN  IF IsRaise(cv)
        THEN [self |-> [self EXCEPT !.raised = TRUE], parms |-> parms, updated |-> {}]
        ELSE [self |-> setDirty(self, FALSE),
              parms |-> [k \in Keys |-> IF k \in DOMAIN cv.v
                                        THEN [parms[k] EXCEPT !.value = cv.v[k]]
                                        ELSE parms[k]],
              updated |-> DOMAIN cv.v]

\* setup(): one editor widget per parameter, then do_reset().
setup(parms) ==
    do_reset([editors |-> [k \in Keys |-> qpw_setup(NewWidget(widget_class(parms[k])),
                                                    parms[k])],
               dirty |-> FALSE, btn_accept |-> TRUE, btn_reset |-> TRUE,
               raised |-> FALSE, midDirty |-> FALSE],
              parms)

\* __init__(parent, parameters)
init(parms) == setDirty(setup(parms), FALSE)


\* closeEvent(event)
closeEvent(self) ==
    IF self.dirty THEN [alert |-> TRUE, event |-> "ignored"]
    ELSE [alert |-> FALSE, event |-> "accepted"]

\* ------------------------------------------------------------------------
\* The editor as a state machine: what the user and the caller do to it
\* ------------------------------------------------------------------------

\* The texts the user leaves in a line edit: empty, a word, numbers.
Texts == {<<>>, <<"a">>, <<"5">>, <<"5", "7">>}

\* The parameter items of the editor: every item the constructors return
\* for these arguments.
Accepted(items) == {p \in items : ~IsRaise(p)}

EditorItems ==
    [autoscale |-> Accepted({ParameterItemCheckbox(PyBool(TRUE))}),
     color |-> Accepted({ParameterItemChoice(PyStr(v), ch) :
                            v \in {<<"r">>, <<"x">>},
                            ch \in {Absent, PyList(<< <<"r">>, <<"g">> >>)}}),
     count |-> Accepted({ParameterItemIndex(PyInt(n), PyInt(MaxIndex), PyInt(0)) :
                            n \in {-1, 0, MaxIndex + 1}}),
     title |-> Accepted({ParameterItemText(v) :
                            v \in {PyStr(<<"a">>), PyInt(5), PyBool(FALSE)}})]

\* The handler's outcome becomes the next state.
Becomes(self, parms, op, updated, ev, al) ==
    /\ parameters' = parms
    /\ editors' = self.editors
    /\ _dirty' = self.dirty
    /\ btn_accept' = self.btn_accept
    /\ btn_reset' = self.btn_reset
    /\ event' = ev
    /\ alert' = al
    /\ last' = [op |-> op, raised |-> self.raised, midDirty |-> self.midDirty,
                updated |-> updated]
    /\ UNCHANGED <<itemVars, formVars, widgetVars>>

\* The user's edit of editor k has given it the native state w.
Edited(k, w) ==
    Becomes(Emit([Self EXCEPT !.editors[k] = w], parameters, editors[k], k),
            parameters, "edit", {}, "none", FALSE)

\* The user clicks a checkbox.
ToggleCheckBox ==
    \E k \in Keys :
        /\ editors[k].cls = "QPW_CheckBox"
        /\ Edited(k, [editors[k] EXCEPT !.checkState = IF @ = 0 THEN 2 ELSE 0])

\* The user picks another item of a combo box.
PickChoice ==
    \E k \in Keys :
        /\ editors[k].cls = "QPW_Choice"
        /\ \E i \in 0..(Len(editors[k].items) - 1) :
              /\ i # editors[k].currentIndex
              /\ Edited(k, [editors[k] EXCEPT !.currentIndex = i])

\* The user steps or types another value of a spin box, within its range.
SpinIndex ==
    \E k \in Keys :
        /\ editors[k].cls = "QPW_Index"
        /\ \E n \in editors[k].minimum..editors[k].maximum :
              /\ n # editors[k].value
              /\ Edited(k, [editors[k] EXCEPT !.value = n])

\* The user replaces the text of a line edit.
TypeText ==
    \E k \in Keys :
        /\ editors[k].cls = "QPW_Text"
        /\ \E s \in Texts :
              /\ s # editors[k].text
              /\ Edited(k, [editors[k] EXCEPT !.text = s])

\* The Accept button, or a call of do_accept().
Accept ==
    LET r == do_accept(Self, parameters)
    IN  Becomes(r.self, r.parms, "do_accept", r.updated, "none", FALSE)

\* The Reset button, or a call of do_reset().
Reset == Becomes(do_reset(Self, parameters), parameters, "do_reset", {}, "none", FALSE)

\* A close request.
Close ==
    LET r == closeEvent(Self)
    IN  Becomes(Self, parameters, "closeEvent", {}, r.event, r.alert)

\* The caller sets the flag.
SetDirty ==
    \E dirty \in BOOLEAN :
        Becomes(setDirty(Self, dirty), parameters, "setDirty", {}, "none", FALSE)

NoCall == [cls |-> "none"]

\* No ParameterEditorWidget has been built.
NoForm == self_dirty = FALSE /\ results = [t |-> "None", v |-> "None"]

\* No widget stands on its own.
NoWidget == qpw_widget = [cls |-> "none"] /\ given = <<>>

InitEditor ==
    /\ \E a \in EditorItems.autoscale, c \in EditorItems.color,
          n \in EditorItems.count, x \in EditorItems.title :
            parameters = [autoscale |-> a, color |-> c, count |-> n, title |-> x]
    /\ LET self == init(parameters)
       IN  /\ editors = self.editors
           /\ _dirty = self.dirty
           /\ btn_accept = self.btn_accept
           /\ btn_reset = self.btn_reset
           /\ last = [op |-> "__init__", raised |-> self.raised,
                      midDirty |-> self.midDirty, updated |-> {}]
    /\ event = "none"
    /\ alert = FALSE
    /\ call = NoCall
    /\ result = NoError
    /\ NoForm
    /\ NoWidget

\* What the user does: edits, the two buttons, close requests.
NextUser == ToggleCheckBox \/ PickChoice \/ SpinIndex \/ TypeText \/ Accept \/ Reset \/ Close

SpecUser == InitEditor /\ [][NextUser]_vars

\* The user's operations and the caller's setDirty.
Next == NextUser \/ SetDirty

Spec == InitEditor /\ [][Next]_vars


\* ------------------------------------------------------------------------
\* The parameter item constructors, called on bounded arguments
\* ------------------------------------------------------------------------

Pending == [t |-> "pending", v |-> "pending"]

\* Integer arguments: hi and lo, and values inside and outside them.
Limits == {Absent} \cup {PyInt(n) : n \in 0..MaxArg}

IndexValues == {PyInt(n) : n \in -1..(MaxArg + 1)} \cup {PyStr(<<"1">>), PyStr(<<"a">>)}

ChoiceLists == {Absent, PyList(<<>>), PyList(<< <<"r">>, <<"g">> >>)}

WidgetNames ==
    {Absent, Name("QPW_slider")} \cup {Name(w) : w \in _PARM_WIDGET_KEYS}

Call(cls, value, widget, choices, hi, lo) ==
    [cls |-> cls, value |-> value, widget |-> widget, choices |-> choices,
     hi |-> hi, lo |-> lo]

ItemCalls ==
    {Call(cls, value, widget, choices, hi, lo) :
        cls \in {"ParameterItemBase", "ParameterItem"},
        value \in {PyInt(-1), PyInt(1), PyInt(MaxArg + 1), PyStr(<<"r">>)},
        widget \in WidgetNames, choices \in ChoiceLists,
        hi \in Limits, lo \in Limits}
    \cup {Call("ParameterItemCheckbox", value, Absent, Absent, Absent, Absent) :
            value \in {PyBool(TRUE), PyBool(FALSE)}}
    \cup {Call("ParameterItemChoice", PyStr(value), Absent, choices, Absent, Absent) :
            value \in {<<"r">>, <<"x">>}, choices \in ChoiceLists}
    \cup {Call("ParameterItemIndex", value, Absent, Absent, hi, lo) :
            value \in IndexValues, hi \in Limits, lo \in Limits}
    \cup {Call("ParameterItemText", value, Absent, Absent, Absent, Absent) :
            value \in {PyStr(<<"a">>), PyInt(5), PyBool(FALSE)}}

Returns(cls, r) ==
    /\ call.cls = cls
    /\ result.t = "pending"
    /\ result' = r
    /\ UNCHANGED <<call, editorVars, formVars, widgetVars>>

NewParameterItemBase ==
    Returns("ParameterItemBase",
            ParameterItemBase(call.value, call.widget, call.choices, call.hi, call.lo))

NewParameterItemCheckbox ==
    Returns("ParameterItemCheckbox", ParameterItemCheckbox(call.value))

NewParameterItemChoice ==
    Returns("ParameterItemChoice", ParameterItemChoice(call.value, call.choices))

NewParameterItemIndex ==
    Returns("ParameterItemIndex", ParameterItemIndex(call.value, call.hi, call.lo))

NewParameterItemText ==
    Returns("ParameterItemText", ParameterItemText(call.value))

NewParameterItem ==
    Returns("ParameterItem",
            ParameterItem(call.value, call.widget, call.choices, call.hi, call.lo))

InitItem ==
    /\ call \in ItemCalls
    /\ result = Pending
    /\ parameters = <<>>
    /\ editors = <<>>
    /\ _dirty = FALSE
    /\ btn_accept = FALSE
    /\ btn_reset = FALSE
    /\ event = "none"
    /\ alert = FALSE
    /\ last = [op |-> "none", raised |-> FALSE, midDirty |-> FALSE, updated |-> {}]
    /\ NoForm
    /\ NoWidget

NextItem ==
    \/ NewParameterItemBase
    \/ NewParameterItemCheckbox
    \/ NewParameterItemChoice
    \/ NewParameterItemIndex
    \/ NewParameterItemText
    \/ NewParameterItem

SpecItem == InitItem /\ [][NextItem]_vars


\* ------------------------------------------------------------------------
\* pyqparamwidget/param_editor.py: ParameterEditorWidget, the older editor
\* ------------------------------------------------------------------------

\* _PARM_WIDGETS of param_editor.py: the Qt widget classes themselves.
QtWidgets_PARM_WIDGETS ==
    [w \in {PARM_TYPE_CHECKBOX, PARM_TYPE_CHOICE, PARM_TYPE_DEFAULT, PARM_TYPE_INDEX} |->
        CASE w = PARM_TYPE_CHECKBOX -> "QCheckBox"
          [] w = PARM_TYPE_CHOICE   -> "QComboBox"
          [] w = PARM_TYPE_DEFAULT  -> "QLineEdit"
          [] w = PARM_TYPE_INDEX    -> "QSpinBox"]

\* setCheckState(original_value) with a bool: the number taken as the
\* check state (True is 1, Qt.PartiallyChecked; False is 0, Qt.Unchecked).
setCheckState(w, value) == [w EXCEPT !.checkState = PyNum(value)]

\* QComboBox.addItems on an empty combo box: the first item becomes current.
addItems(w, texts) ==
    [w EXCEPT !.items = texts, !.currentIndex = IF texts = <<>> THEN -1 ELSE 0]

\* QSpinBox.setRange: the value is forced into the new range.
setRange(w, lo, hi) == setValue([w EXCEPT !.minimum = lo, !.maximum = hi], w.value)

\* The branch of setup() and of do_revert() that shows original_value.
showOriginal(w, parm) ==
    CASE parm.widget = PARM_TYPE_CHECKBOX -> setCheckState(w, parm.value)
      [] parm.widget = PARM_TYPE_CHOICE   -> setCurrentText(w, str(parm.value))
      [] parm.widget = PARM_TYPE_INDEX    -> setValue(w, PyNum(parm.value))
      [] OTHER                            -> [w EXCEPT !.text = str(parm.value)]

\* do_revert(): every widget to its original value, then dirty = False.
do_revert(self, parms) ==
    [self EXCEPT !.editors = [k \in Keys |-> showOriginal(self.editors[k], parms[k])],
                 !.dirty = FALSE,
                 !.results = NoError]

\* The value currentValues() reports for one editor: the widget's native
\* value converted by the type of original_value.
currentValue(w, parm) ==
    PyCall(parm.value.t,
           CASE parm.widget = PARM_TYPE_CHECKBOX -> PyInt(w.checkState)
             [] parm.widget = PARM_TYPE_CHOICE   -> PyStr(currentText(w))
             [] parm.widget = PARM_TYPE_INDEX    -> PyInt(w.value)
             [] OTHER                            -> PyStr(w.text))

\* currentValues(): the first conversion that raises ends the call.
currentValues(eds, parms) ==
    LET bad == {i \in 1..Len(KeyOrder) :
                    IsRaise(currentValue(eds[KeyOrder[i]], parms[KeyOrder[i]]))}
    IN  IF bad # {}
        THEN LET k == KeyOrder[CHOOSE i \in bad : \A j \in bad : i <= j]
             IN  currentValue(eds[k], parms[k])
        ELSE [t |-> "dict", v |-> [k \in Keys |-> currentValue(eds[k], parms[k])]]

\* do_cancel(): dirty = False, and the empty dictionary returned.
do_cancel(self) ==
    [self EXCEPT !.dirty = FALSE, !.results = [t |-> "dict", v |-> <<>>]]

\* do_ok(): dirty = False, and currentValues() returned.
do_ok(self, parms) ==
    [self EXCEPT !.dirty = FALSE, !.results = currentValues(self.editors, parms)]

\* setup() of ParameterEditorWidget: one Qt widget per parameter, showing
\* original_value, then do_revert(); only the three buttons are connected.
ParameterEditorWidget_setup(self, parms) ==
    do_revert(
        [self EXCEPT !.editors =
            [k \in Keys |->
                LET editor == NewWidget(QtWidgets_PARM_WIDGETS[parms[k].widget])
                IN  CASE parms[k].widget = PARM_TYPE_CHECKBOX ->
                            setCheckState(editor, parms[k].value)
                      [] parms[k].widget = PARM_TYPE_CHOICE ->
                            setCurrentText(addItems(editor, parms[k].choices.v),
                                           str(parms[k].value))
                      [] parms[k].widget = PARM_TYPE_INDEX ->
                            setValue(setRange(editor, parms[k].lo.v, parms[k].hi.v),
                                     PyNum(parms[k].value))
                      [] OTHER -> [editor EXCEPT !.text = str(parms[k].value)]]],
        parms)

\* __init__(parent, parameters) of ParameterEditorWidget
ParameterEditorWidget_init(parms) ==
    ParameterEditorWidget_setup([editors |-> <<>>, dirty |-> FALSE, results |-> NoError],
                                parms)

\* The form's own state, as its handlers read and write it.
Form == [editors |-> editors, dirty |-> self_dirty, results |-> results]

\* The parameters of the form: items the older constructor returns.
FormItems ==
    [autoscale |-> Accepted({ParameterItem(PyBool(b), Name(PARM_TYPE_CHECKBOX),
                                           Absent, Absent, Absent) : b \in BOOLEAN}),
     color |-> Accepted({ParameterItem(PyStr(v), Name(PARM_TYPE_CHOICE),
                                       PyList(<< <<"r">>, <<"g">> >>), Absent, Absent) :
                            v \in {<<"r">>, <<"g">>}}),
     count |-> Accepted({ParameterItem(PyInt(n), Name(PARM_TYPE_INDEX), Absent,
                                       PyInt(MaxIndex), PyInt(0)) :
                            n \in -1..(MaxIndex + 1)}),
     title |-> Accepted({ParameterItem(v, Absent, Absent, Absent, Absent) :
                            v \in {PyStr(<<"a">>), PyInt(5)}})]

\* The handler's outcome becomes the next state.
FormBecomes(self, op) ==
    /\ editors' = self.editors
    /\ self_dirty' = self.dirty
    /\ results' = self.results
    /\ last' = [last EXCEPT !.op = op]
    /\ UNCHANGED <<parameters, _dirty, btn_accept, btn_reset, event, alert,
                   itemVars, widgetVars>>

\* The user's edit of editor k has given it the native state w: no slot
\* is connected to the editors' signals.
FormEdited(k, w) == FormBecomes([Form EXCEPT !.editors[k] = w], "edit")

\* The user clicks a checkbox.
FormToggleCheckBox ==
    \E k \in Keys :
        /\ editors[k].cls = "QCheckBox"
        /\ FormEdited(k, [editors[k] EXCEPT !.checkState = IF @ = 0 THEN 2 ELSE 0])

\* The user picks another item of a combo box.
FormPickChoice ==
    \E k \in Keys :
        /\ editors[k].cls = "QComboBox"
        /\ \E i \in 0..(Len(editors[k].items) - 1) :
              /\ i # editors[k].currentIndex
              /\ FormEdited(k, [editors[k] EXCEPT !.currentIndex = i])

\* The user steps or types another value of a spin box, within its range.
FormSpinIndex ==
    \E k \in Keys :
        /\ editors[k].cls = "QSpinBox"
        /\ \E n \in editors[k].minimum..editors[k].maximum :
              /\ n # editors[k].value
              /\ FormEdited(k, [editors[k] EXCEPT !.value = n])

\* The user replaces the text of a line edit.
FormTypeText ==
    \E k \in Keys :
        /\ editors[k].cls = "QLineEdit"
        /\ \E s \in Texts :
              /\ s # editors[k].text
              /\ FormEdited(k, [editors[k] EXCEPT !.text = s])

\* The OK button.
Ok == FormBecomes(do_ok(Form, parameters), "do_ok")

\* The Cancel button.
Cancel == FormBecomes(do_cancel(Form), "do_cancel")

\* The Revert button.
Revert == FormBecomes(do_revert(Form, parameters), "do_revert")

InitForm ==
    /\ \E a \in FormItems.autoscale, c \in FormItems.color,
          n \in FormItems.count, x \in FormItems.title :
            parameters = [autoscale |-> a, color |-> c, count |-> n, title |-> x]
    /\ LET self == ParameterEditorWidget_init(parameters)
       IN  /\ editors = self.editors
           /\ self_dirty = self.dirty
           /\ results = self.results
    /\ last = [op |-> "__init__", raised |-> FALSE, midDirty |-> FALSE, updated |-> {}]
    /\ _dirty = FALSE
    /\ btn_accept = FALSE
    /\ btn_reset = FALSE
    /\ event = "none"
    /\ alert = FALSE
    /\ call = NoCall
    /\ result = NoError
    /\ NoWidget

NextForm ==
    \/ FormToggleCheckBox
    \/ FormPickChoice
    \/ FormSpinIndex
    \/ FormTypeText
    \/ Ok
    \/ Cancel
    \/ Revert

SpecForm == InitForm /\ [][NextForm]_vars


\* ------------------------------------------------------------------------
\* qpw_widgets.py: an editor widget on its own, its qpw_set called in turn
\* ------------------------------------------------------------------------

\* The widgets as a form prepares them: the combo box with its choices,
\* the spin box with its range lo..hi.
PreparedWidgets ==
    {NewWidget("QPW_CheckBox"),
     addItems(NewWidget("QPW_Choice"), << <<"r">>, <<"g">> >>),
     setRange(NewWidget("QPW_Index"), 0, MaxIndex),
     NewWidget("QPW_Text")}

\* The values handed to qpw_set: booleans for the checkbox, strings inside
\* and outside the choices for the combo box, integers inside and outside
\* lo..hi for the spin box, and strings, integers and booleans for the text.
SetValues(cls) ==
    CASE cls = "QPW_CheckBox" -> {PyBool(b) : b \in BOOLEAN}
      [] cls = "QPW_Choice"   -> {PyStr(<<"r">>), PyStr(<<"g">>), PyStr(<<"x">>)}
      [] cls = "QPW_Index"    -> {PyInt(n) : n \in -1..(MaxIndex + 1)}
      [] cls = "QPW_Text"     -> {PyStr(<<"a">>), PyStr(<<>>), PyInt(5),
                                  PyBool(TRUE), PyBool(FALSE)}

\* One more call of qpw_set on the widget of class cls.
Set(cls) ==
    /\ qpw_widget.cls = cls
    /\ Len(given) < MaxSets
    /\ \E value \in SetValues(cls) :
          /\ qpw_widget' = qpw_set(qpw_widget, value)
          /\ given' = Append(given, value)
    /\ UNCHANGED <<editorVars, itemVars, formVars>>

CheckBoxSet == Set("QPW_CheckBox")

ChoiceSet == Set("QPW_Choice")

IndexSet == Set("QPW_Index")

TextSet == Set("QPW_Text")

InitWidget ==
    /\ qpw_widget \in PreparedWidgets
    /\ given = <<>>
    /\ parameters = <<>>
    /\ editors = <<>>
    /\ _dirty = FALSE
    /\ btn_accept = FALSE
    /\ btn_reset = FALSE
    /\ event = "none"
    /\ alert = FALSE
    /\ last = [op |-> "none", raised |-> FALSE, midDirty |-> FALSE, updated |-> {}]
    /\ call = NoCall
    /\ result = NoError
    /\ NoForm

NextWidget == CheckBoxSet \/ ChoiceSet \/ IndexSet \/ TextSet

SpecWidget == InitWidget /\ [][NextWidget]_vars


\* ------------------------------------------------------------------------
\* Properties of the editor
\* ------------------------------------------------------------------------

\* changedValues() of the current state.
Changed == changedValues(editors, parameters)

\* changedValues() returns, and returns the empty dictionary.
ChangedIsEmpty == ~IsRaise(Changed) /\ DOMAIN Changed.v = {}

\* changedValues() returns, and returns at least one changed value.
ChangedIsNonEmpty == ~IsRaise(Changed) /\ DOMAIN Changed.v # {}

\* Every editor's qpw_get() returns its parameter's value.
WidgetsShowParameters ==
    \A k \in Keys :
        /\ ~IsRaise(qpw_get(editors[k]))
        /\ PyEq(qpw_get(editors[k]), parameters[k].value)

\* C1: after construction and any sequence of user edits, do_accept and
\* do_reset, dirty() is True exactly when changedValues() is non-empty,
\* that is exactly when some editor's value differs from its parameter's.
C1_DirtyIffChanged == _dirty <=> ChangedIsNonEmpty

\* C2: a close request is ignored, with the alert shown, when dirty() is
\* True and accepted when it is False, so that no close is accepted while
\* some editor's value differs from its parameter's value.
C2_NoCloseOverChanges ==
    last.op = "closeEvent" =>
        \/ _dirty /\ event = "ignored" /\ alert
        \/ ~_dirty /\ event = "accepted" /\ ~alert /\ WidgetsShowParameters

\* C3: one do_accept or one do_reset, from any reachable state, ends in a
\* state with dirty() False in which the next close request is accepted.
C3_AcceptOrResetClears ==
    last.op \in {"do_accept", "do_reset"} =>
        ~_dirty /\ closeEvent(Self).event = "accepted"

\* C4 (state part): in the state in which do_accept returns, every
\* parameter's value equals its editor's qpw_get(), values() is the mapping
\* key -> parameter value, and changedValues() is empty.
C4_AfterAccept ==
    (last.op = "do_accept" /\ ~last.raised) =>
        /\ WidgetsShowParameters
        /\ \A k \in Keys : PyEq(values(editors)[k], parameters[k].value)
        /\ ChangedIsEmpty

\* C4: do_accept makes the widget values the new baseline: the state part
\* above, and a do_reset that follows leaves every editor's value
\* (qpw_get()) and every parameter as it is.
C4_AcceptSetsBaseline ==
    /\ []C4_AfterAccept
    /\ [][(last.op = "do_accept" /\ ~last.raised /\ last'.op = "do_reset") =>
            /\ parameters' = parameters
            /\ \A k \in Keys : PyEq(values(editors')[k], values(editors)[k])]_vars

\* C4 witness: a do_accept that returned after updating a parameter.
C4_Witness == last.op = "do_accept" /\ ~last.raised /\ last.updated # {}

\* C5: right after do_reset, and right after construction, every editor's
\* qpw_get() equals its parameter's value and changedValues() is empty, for
\* every parameter item the constructors return.
C5_ResetShowsParameters ==
    last.op \in {"__init__", "do_reset"} => WidgetsShowParameters /\ ChangedIsEmpty

\* C6: the Accept and the Reset button are enabled exactly when dirty() is
\* True, whatever edits, do_accept, do_reset and setDirty calls came before;
\* right after construction dirty() is False and both are disabled.
C6_ButtonsFollowDirty ==
    /\ btn_accept = _dirty
    /\ btn_reset = _dirty
    /\ last.op = "__init__" => ~_dirty /\ ~btn_accept /\ ~btn_reset

\* C6 witness: the caller's setDirty(True) has enabled both buttons of an
\* editor whose widgets show the parameters' values.
C6_Witness ==
    last.op = "setDirty" /\ _dirty /\ btn_accept /\ btn_reset /\ ChangedIsEmpty

Given(arg) == arg.t # "absent"

\* The call constructs an index parameter, by either class.
IndexCall ==
    \/ call.cls = "ParameterItemIndex"
    \/ call.cls = "ParameterItem" /\ Given(call.widget) /\ call.widget.v = PARM_TYPE_INDEX

\* The call constructs a choice parameter, by either class.
ChoiceCall ==
    \/ call.cls = "ParameterItemChoice"
    \/ call.cls = "ParameterItem" /\ Given(call.widget) /\ call.widget.v = PARM_TYPE_CHOICE

ValueErrorSaying(msg) == IsRaise(result) /\ result.v = "ValueError" /\ result.msg = msg

\* The integer an argument of the call stands for, where int() gives one.
IntOf(arg) == PyCall("int", arg).v

\* C8: an index parameter's construction raises ValueError when hi is not
\* given, when lo is not given, when lo > hi, when int(value) > hi, when
\* int(value) < lo, the first of these that fails deciding the message; one
\* that returns has lo <= int(value) <= hi.
C8_IndexValidation ==
    (IndexCall /\ result.t # "pending") =>
        /\ ~Given(call.hi) => ValueErrorSaying("Must provide hi")
        /\ (Given(call.hi) /\ ~Given(call.lo)) => ValueErrorSaying("Must provide lo")
        /\ (Given(call.hi) /\ Given(call.lo)) =>
              /\ call.lo.v > call.hi.v => ValueErrorSaying("lo greater than hi")
              /\ (call.lo.v <= call.hi.v /\ ~IsRaise(PyCall("int", call.value))) =>
                    /\ IntOf(call.value) > call.hi.v =>
                          ValueErrorSaying("value greater than hi")
                    /\ (IntOf(call.value) <= call.hi.v /\ IntOf(call.value) < call.lo.v) =>
                          ValueErrorSaying("value less than lo")
        /\ ~IsRaise(result) =>
              /\ Given(call.hi) /\ Given(call.lo)
              /\ call.lo.v <= IntOf(call.value) /\ IntOf(call.value) <= call.hi.v

\* C8 witness: the last of the five checks has refused an index parameter
\* whose hi and lo are given and in order.
C8_Witness == IndexCall /\ ValueErrorSaying("value less than lo")

\* C9: constructing ParameterItemBase raises ValueError exactly when the
\* widget name is not one of the four known names; with a known name, or
\* with none given, it returns a parameter item.
C9_BaseReturnsForKnownWidget ==
    (call.cls = "ParameterItemBase" /\ result.t # "pending") =>
        LET known == ~Given(call.widget) \/ call.widget.v \in _PARM_WIDGET_KEYS
        IN  /\ ~known => IsRaise(result) /\ result.v = "ValueError"
            /\ known => result.t = "item"

\* C10: constructing a choice parameter without a choices argument raises
\* ValueError, by ParameterItemChoice as by the older ParameterItem.
C10_ChoiceNeedsChoices ==
    (ChoiceCall /\ ~Given(call.choices) /\ result.t # "pending") =>
        IsRaise(result) /\ result.v = "ValueError"

\* ------------------------------------------------------------------------
\* Properties of the older editor
\* ------------------------------------------------------------------------

\* The value currentValues() reports for editor k is not original_value
\* (a text that does not convert is not the original value either).
Unsaved(k) ==
    LET cur == currentValue(editors[k], parameters[k])
    IN  IsRaise(cur) \/ ~PyEq(cur, parameters[k].value)

\* C11: after construction and any sequence of user edits, do_ok,
\* do_cancel and do_revert, ParameterEditorWidget.dirty is True exactly
\* when some widget's current value differs from its parameter's
\* original_value.
C11_DirtyMeansUnsaved == self_dirty <=> \E k \in Keys : Unsaved(k)

\* ------------------------------------------------------------------------
\* Properties of the editor widgets
\* ------------------------------------------------------------------------

\* The type of the value given to the widget's first qpw_set; bool for
\* the checkbox.
FirstType == IF qpw_widget.cls = "QPW_CheckBox" THEN "bool" ELSE given[1].t

\* C12: after qpw_set(v), qpw_get() returns a value equal to v, of the
\* type of the value given to the widget's first qpw_set (bool for the
\* checkbox), and the type the widget has latched is still that type.
C12_RoundTrip ==
    given # <<>> =>
        LET v == given[Len(given)]
            got == qpw_get(qpw_widget)
        IN  /\ ~IsRaise(got)
            /\ PyEq(got, v)
            /\ got.t = FirstType
            /\ qpw_widget.original_type = FirstType

=============================================================================
